---- MODULE Spec2Model ----
(***************************************************************************)
(* Timing-attack simulation (group-op-timing-attack/extra/timing-attack.py) *)
(*                                                                         *)
(* Representation.                                                         *)
(*  - Python lists are sequences; the 0-based index i of the source is     *)
(*    position i + 1 here.                                                 *)
(*  - Times are floats in the source.  np.random.normal(mu, sigma) is      *)
(*    mu + sigma * z for a standard deviate z produced by the generator.   *)
(*    The deviate is modelled as a small integer, so every time is a       *)
(*    multiple of Tick and is stored as a number of ticks; sums, squares   *)
(*    and the comparison of variances are exact in this unit.              *)
(*  - The generator (numpy's process-wide RandomState) is modelled by the  *)
(*    pair (last seed, number of draws since that seed); a draw is a fixed *)
(*    function of that pair.  Which function is a parameter (twist).       *)
(***************************************************************************)
EXTENDS Integers, Sequences, FiniteSets, TLC

VARIABLES
    seed,           \* main: secret key seed (line 111)
    sigma,          \* Device.sigma
    twist,          \* which deterministic generator function is in use
    gen,            \* state of the process-wide numpy generator
    secret,         \* VictimDevice.secret
    pc,             \* position of main()
    i,              \* main: outer loop index
    j,              \* main: number of trials completed in this round
    c,              \* main: challenge of the current trial
    t_vic,          \* main: victim time of the current trial
    recovered,      \* main: recovered
    sum0, sum0_square, sum1, sum1_square,
    query,          \* the exponent vector of the last attacker.sign call
    out,            \* bits printed so far by line 150
    cls,            \* branch taken by VictimDevice.check
    variant,        \* Device.group_op
    call,           \* device harness: the last sign call and its result
    pair            \* side-by-side harness: two runs of the group operation

vars == <<seed, sigma, twist, gen, secret, pc, i, j, c, t_vic, recovered,
          sum0, sum0_square, sum1, sum1_square, query, out, cls, variant,
          call, pair>>

mainVars == <<pc, i, j, c, t_vic, recovered, sum0, sum0_square, sum1,
              sum1_square, query, out>>

----------------------------------------------------------------------------
(* Bounds *)

\* trials per round (N = 4000 in the source)
N == 2
\* challenges are drawn from 1..MaxChallenge (1..2^keylen in the source)
MaxChallenge == 2
\* secret key seeds are drawn from 1..MaxSeed (1..2^32-1 in the source)
MaxSeed == 4
\* generator functions tried
MaxTwist == 1
\* longest hypothesis vector handed to the device by the harnesses
MaxLen == 2

----------------------------------------------------------------------------
(* Program constants *)

\* the entries of the table below 2^31; main uses the table through keylen
primes == (8 :> 61) @@ (16 :> 53759)

\* the shortest key of the table (main sets 64, whose prime exceeds 2^31)
keylen == CHOOSE k \in DOMAIN primes : \A k2 \in DOMAIN primes : k <= k2

mu_default == 1000
sigma_default == 50

\* unit of time of the model
Tick == sigma_default

mu == mu_default \div Tick

Sigmas == {0, sigma_default}

Challenges == 1..MaxChallenge

Bit == {0, 1}

----------------------------------------------------------------------------
(* The generator *)

\* x % 2**32: every value seeded in the model is a natural below 2^31
Low32(x) == x

\* np.random.seed(v)
Seeded(v) == [seed |-> Low32(v), n |-> 0]

\* the standard deviate of draw number g.n after seeding with g.seed
Deviate(g, w) == ((g.seed * (w + 2) + g.n * (2 * w + 1) + g.seed * g.n) % 5) - 2

\* Variant of Normal: the deviate is not scaled by sg
Normal_unscaled(g, sg, w) ==
    [x |-> mu + Deviate(g, w), gen |-> [g EXCEPT !.n = @ + 1]]

\* np.random.normal(mu, sg): the sample in ticks and the generator afterwards
Normal(g, sg, w) ==
    [x |-> mu + (sg \div Tick) * Deviate(g, w), gen |-> [g EXCEPT !.n = @ + 1]]

\* np.random.rand() <= 0.5 for draw number k (0-based) after seeding with s.
\* The outcome is a fixed function of (s, k); the multiplier makes seed 1 yield
\* the secret 1,0,1,1,0,0,1,0.
RandLeHalf(s, k) == ((s * 89) \div (2 ^ k)) % 2 = 0

SecretKey(s) ==
    <<1>> \o [k \in 1..(keylen - 1) |-> IF RandLeHalf(Low32(s), k - 1) THEN 1 ELSE 0]

\* the generator after VictimDevice.__init__
GenAfterInit(s) == [seed |-> Low32(s), n |-> keylen - 1]

----------------------------------------------------------------------------
(* Device *)

\* Device.__init__; group_op is the method bound at line 41 or 42
Device(sg, op) ==
    [p |-> primes[keylen], keylen |-> keylen, mu |-> mu, sigma |-> sg,
     group_op |-> op]

\* state of a run of the group operation, lines 48-49; the generator is in the state the previous calls left it in
Begin(g, d) == [res |-> 1, delay |-> 0, gen |-> g, d |-> d]

\* np.random.seed(v) inside a run
Reseed(st, v) == [st EXCEPT !.gen = Seeded(v)]

\* Variant of Enter: the seeding of line 50 is missing
Enter_no_seed(g, m, d) == Begin(g, d)

\* lines 48-50 (64-66): the run state before the loop
Enter(g, m, d) == Reseed(Begin(g, d), m)

\* Variant of double_and_add_body: the conditional step adds no second sample
double_and_add_body_one_sample(dev, w, m, st, k) ==
    LET res1 == (st.res * 2) % dev.p
        n1 == Normal(st.gen, dev.sigma, w)
    IN  IF st.d[k + 1] = 1
        THEN LET res2 == (res1 + m) % dev.p
             IN  [st EXCEPT !.res = res2, !.delay = st.delay + n1.x,
                            !.gen = Seeded(res2)]
        ELSE [st EXCEPT !.res = res1, !.delay = st.delay + n1.x, !.gen = n1.gen]

\* Variant of double_and_add_body: the test reads d[i + 1] where it exists
double_and_add_body_next_bit(dev, w, m, st, k) ==
    LET res1 == (st.res * 2) % dev.p
        n1 == Normal(st.gen, dev.sigma, w)
        q == IF k + 2 <= Len(st.d) THEN k + 2 ELSE k + 1
    IN  IF st.d[q] = 1
        THEN LET res2 == (res1 + m) % dev.p
                 n2 == Normal(Reseed(st, res2).gen, dev.sigma, w)
             IN  [st EXCEPT !.res = res2, !.delay = st.delay + n1.x + n2.x,
                            !.gen = n2.gen]
        ELSE [st EXCEPT !.res = res1, !.delay = st.delay + n1.x, !.gen = n1.gen]

\* Variant of double_and_add_body: the scan clears each bit it has consumed
double_and_add_body_clears(dev, w, m, st, k) ==
    LET res1 == (st.res * 2) % dev.p
        n1 == Normal(st.gen, dev.sigma, w)
    IN  IF st.d[k + 1] = 1
        THEN LET res2 == (res1 + m) % dev.p
                 n2 == Normal(Reseed(st, res2).gen, dev.sigma, w)
             IN  [st EXCEPT !.res = res2, !.delay = st.delay + n1.x + n2.x,
                            !.gen = n2.gen, !.d[k + 1] = 0]
        ELSE [st EXCEPT !.res = res1, !.delay = st.delay + n1.x, !.gen = n1.gen]

\* one iteration of the loop of double_and_add, for 0-based index k
double_and_add_body(dev, w, m, st, k) ==
    LET res1 == (st.res * 2) % dev.p
        n1 == Normal(st.gen, dev.sigma, w)
    IN  IF st.d[k + 1] = 1
        THEN LET res2 == (res1 + m) % dev.p
                 n2 == Normal(Reseed(st, res2).gen, dev.sigma, w)
             IN  [st EXCEPT !.res = res2, !.delay = st.delay + n1.x + n2.x,
                            !.gen = n2.gen]
        ELSE [st EXCEPT !.res = res1, !.delay = st.delay + n1.x, !.gen = n1.gen]

\* one iteration of the loop of square_and_mul
square_and_mul_body(dev, w, m, st, k) ==
    LET res1 == (st.res * st.res) % dev.p
        n1 == Normal(st.gen, dev.sigma, w)
    IN  IF st.d[k + 1] = 1
        THEN LET res2 == (res1 * m) % dev.p
                 n2 == Normal(Reseed(st, res2).gen, dev.sigma, w)
             IN  [st EXCEPT !.res = res2, !.delay = st.delay + n1.x + n2.x,
                            !.gen = n2.gen]
        ELSE [st EXCEPT !.res = res1, !.delay = st.delay + n1.x, !.gen = n1.gen]

Body(dev, w, m, st, k) ==
    IF dev.group_op = "double_and_add"
    THEN double_and_add_body(dev, w, m, st, k)
    ELSE square_and_mul_body(dev, w, m, st, k)

\* for i in range(len(d)), from index k on
RECURSIVE Loop(_, _, _, _, _)
Loop(dev, w, m, st, k) ==
    IF k >= Len(st.d) THEN st
    ELSE Loop(dev, w, m, Body(dev, w, m, st, k), k + 1)

\* The generator g on entry is whatever the previous calls left behind.  The
\* result holds the returned delay, the generator on exit and the list d, which
\* the caller passed by reference.
double_and_add(dev, w, g, m, d) ==
    Loop([dev EXCEPT !.group_op = "double_and_add"], w, m, Enter(g, m, d), 0)

square_and_mul(dev, w, g, m, d) ==
    Loop([dev EXCEPT !.group_op = "square_and_mul"], w, m, Enter(g, m, d), 0)

\* self.group_op(m, d)
group_op(dev, w, g, m, d) ==
    IF dev.group_op = "double_and_add"
    THEN double_and_add(dev, w, g, m, d)
    ELSE square_and_mul(dev, w, g, m, d)

AttackerSign(dev, w, g, cc, d) == group_op(dev, w, g, cc, d)

VictimSign(dev, w, g, cc, sec) == group_op(dev, w, g, cc, sec)

Matches(sec, d) == Cardinality({k \in 1..keylen : sec[k] = d[k]})

\* Variant of check: the first test is f <= 0.75
check_le(sec, d) ==
    IF 4 * Matches(sec, d) <= 3 * keylen THEN "LOW"
    ELSE IF Matches(sec, d) < keylen THEN "PARTIAL"
    ELSE "FULL"

\* VictimDevice.check: f = matches / keylen against 0.75 and 1
check(sec, d) ==
    IF 4 * Matches(sec, d) < 3 * keylen THEN "LOW"
    ELSE IF Matches(sec, d) < keylen THEN "PARTIAL"
    ELSE "FULL"

----------------------------------------------------------------------------
(* main *)

\* k counts the sign calls made so far, up to 2
NoCall == [m |-> 0, d |-> <<>>, t |-> 0, k |-> 0]
NoPair == [pos |-> -1]

Idle == call = NoCall /\ pair = NoPair

Constructed ==
    /\ seed \in 1..MaxSeed
    /\ sigma \in Sigmas
    /\ twist \in 1..MaxTwist
    /\ secret = SecretKey(seed)
    /\ gen = GenAfterInit(seed)

\* the state after lines 117-122
Start ==
    /\ Constructed
    /\ i = 0 /\ j = 0 /\ c = 0 /\ t_vic = 0
    /\ recovered = <<>>
    /\ sum0 = 0 /\ sum0_square = 0 /\ sum1 = 0 /\ sum1_square = 0
    /\ query = <<>>
    /\ out = <<>>
    /\ cls = "none"
    /\ Idle

\* line 41 binds double_and_add
Init == Start /\ pc = "round" /\ variant = "double_and_add"

\* lines 123-128
RoundStart ==
    /\ pc = "round"
    /\ sum0' = 0 /\ sum0_square' = 0 /\ sum1' = 0 /\ sum1_square' = 0
    /\ recovered' = Append(recovered, 0)
    /\ j' = 0
    /\ pc' = "trial"
    /\ UNCHANGED <<seed, sigma, twist, gen, secret, i, c, t_vic, query, out,
                   cls, variant, call, pair>>

\* lines 130-132
Trial ==
    /\ pc = "trial"
    /\ \E cc \in Challenges :
        LET r == VictimSign(Device(sigma, variant), twist, gen, cc, secret)
        IN  /\ c' = cc
            /\ t_vic' = r.delay
            /\ gen' = r.gen
            /\ secret' = r.d
    /\ pc' = "hyp0"
    /\ UNCHANGED <<seed, sigma, twist, i, j, recovered, sum0, sum0_square,
                   sum1, sum1_square, query, out, cls, variant, call, pair>>

\* Variant of Hyp0: line 134 is missing
Hyp0_no_reset ==
    /\ pc = "hyp0"
    /\ LET d == recovered
           r == AttackerSign(Device(sigma, variant), twist, gen, c, d)
       IN  /\ query' = d
           /\ recovered' = r.d
           /\ gen' = r.gen
           /\ sum0_square' = sum0_square + (t_vic - r.delay) * (t_vic - r.delay)
           /\ sum0' = sum0 + (t_vic - r.delay)
    /\ pc' = "hyp1"
    /\ UNCHANGED <<seed, sigma, twist, secret, i, j, c, t_vic, sum1,
                   sum1_square, out, cls, variant, call, pair>>

\* lines 134-137
Hyp0 ==
    /\ pc = "hyp0"
    /\ LET d == [recovered EXCEPT ![i + 1] = 0]
           r == AttackerSign(Device(sigma, variant), twist, gen, c, d)
       IN  /\ query' = d
           /\ recovered' = r.d
           /\ gen' = r.gen
           /\ sum0_square' = sum0_square + (t_vic - r.delay) * (t_vic - r.delay)
           /\ sum0' = sum0 + (t_vic - r.delay)
    /\ pc' = "hyp1"
    /\ UNCHANGED <<seed, sigma, twist, secret, i, j, c, t_vic, sum1,
                   sum1_square, out, cls, variant, call, pair>>

\* lines 139-142 and the test of the inner loop
Hyp1 ==
    /\ pc = "hyp1"
    /\ LET d == [recovered EXCEPT ![i + 1] = 1]
           r == AttackerSign(Device(sigma, variant), twist, gen, c, d)
       IN  /\ query' = d
           /\ recovered' = r.d
           /\ gen' = r.gen
           /\ sum1_square' = sum1_square + (t_vic - r.delay) * (t_vic - r.delay)
           /\ sum1' = sum1 + (t_vic - r.delay)
    /\ j' = j + 1
    /\ pc' = IF j + 1 < N THEN "trial" ELSE "decide"
    /\ UNCHANGED <<seed, sigma, twist, secret, i, c, t_vic, sum0,
                   sum0_square, out, cls, variant, call, pair>>

\* N * N * (s2 / N - (s / N) ** 2)
VarTimesNN(s, s2) == N * s2 - s * s

\* Variant of Var0Less: var0 <= var1
Var0Less_le(s0, s0sq, s1, s1sq) == VarTimesNN(s0, s0sq) <= VarTimesNN(s1, s1sq)

\* lines 144-146: var0 < var1
Var0Less(s0, s0sq, s1, s1sq) == VarTimesNN(s0, s0sq) < VarTimesNN(s1, s1sq)

\* Variant of Decide: the decision is written one position to the left
Decide_left ==
    /\ pc = "decide"
    /\ LET b == IF Var0Less(sum0, sum0_square, sum1, sum1_square) THEN 0 ELSE 1
           q == IF i > 0 THEN i ELSE i + 1
       IN  /\ recovered' = [recovered EXCEPT ![q] = b]
           /\ out' = Append(out, b)
    /\ IF i + 1 < keylen
       THEN i' = i + 1 /\ pc' = "round"
       ELSE i' = i /\ pc' = "check"
    /\ UNCHANGED <<seed, sigma, twist, gen, secret, j, c, t_vic, sum0,
                   sum0_square, sum1, sum1_square, query, cls, variant, call,
                   pair>>

\* lines 144-151 and the test of the outer loop
Decide ==
    /\ pc = "decide"
    /\ LET b == IF Var0Less(sum0, sum0_square, sum1, sum1_square) THEN 0 ELSE 1
       IN  /\ recovered' = [recovered EXCEPT ![i + 1] = b]
           /\ out' = Append(out, b)
    /\ IF i + 1 < keylen
       THEN i' = i + 1 /\ pc' = "round"
       ELSE i' = i /\ pc' = "check"
    /\ UNCHANGED <<seed, sigma, twist, gen, secret, j, c, t_vic, sum0,
                   sum0_square, sum1, sum1_square, query, cls, variant, call, pair>>

\* line 154
Check ==
    /\ pc = "check"
    /\ cls' = check(secret, recovered)
    /\ pc' = "done"
    /\ UNCHANGED <<seed, sigma, twist, gen, secret, i, j, c, t_vic, recovered,
                   sum0, sum0_square, sum1, sum1_square, query, out, variant,
                   call, pair>>

Next == RoundStart \/ Trial \/ Hyp0 \/ Hyp1 \/ Decide \/ Check

Spec == Init /\ [][Next]_vars

---------------------------------------------------------------------------------------------------------------------------------------------------
(* Device harness: the victim is constructed, then sign is called on either *)
(* device in any order.  Either group operation may be the one bound.       *)

GroupOps == {"double_and_add", "square_and_mul"}

BitVectors(n) == UNION {[1..k -> Bit] : k \in 0..n}

InitSign == Start /\ pc = "sign" /\ variant \in GroupOps

\* victim.sign(cc), lines 92-93
HVictimSign ==
    /\ \E cc \in Challenges :
        LET r == VictimSign(Device(sigma, variant), twist, gen, cc, secret)
        IN  /\ call' = [m |-> cc, d |-> secret, t |-> r.delay,
                        k |-> IF call.k < 2 THEN call.k + 1 ELSE 2]
            /\ gen' = r.gen
            /\ secret' = r.d
    /\ UNCHANGED <<seed, sigma, twist, cls, variant, pair>>
    /\ UNCHANGED mainVars

\* attacker.sign(cc, d), lines 78-79
HAttackerSign ==
    /\ \E cc \in Challenges, d \in BitVectors(MaxLen) :
        LET r == AttackerSign(Device(sigma, variant), twist, gen, cc, d)
        IN  /\ call' = [m |-> cc, d |-> d, t |-> r.delay,
                        k |-> IF call.k < 2 THEN call.k + 1 ELSE 2]
            /\ gen' = r.gen
    /\ UNCHANGED <<seed, sigma, twist, secret, cls, variant, pair>>
    /\ UNCHANGED mainVars

NextSign == HVictimSign \/ HAttackerSign

SpecSign == InitSign /\ [][NextSign]_vars

----------------------------------------------------------------------------
(* Verifier harness: victim.check on any vector of length keylen.           *)

InitCheck == Start /\ pc = "verify" /\ variant = "double_and_add"

\* victim.check(d), lines 95-102
HCheck ==
    /\ \E d \in [1..keylen -> Bit] :
        /\ query' = d
        /\ cls' = check(secret, d)
    /\ UNCHANGED <<seed, sigma, twist, gen, secret, pc, i, j, c, t_vic,
                   recovered, sum0, sum0_square, sum1, sum1_square, out,
                   variant, call, pair>>

NextCheck == HCheck

SpecCheck == InitCheck /\ [][NextCheck]_vars

----------------------------------------------------------------------------
(* Side-by-side harness: the group operation is run on two exponent vectors *)
(* with the same challenge, one loop iteration of each at a time.  The two  *)
(* runs are copies of one call; each carries its own generator.             *)

InitPair == Start /\ pc = "pair" /\ variant \in GroupOps

\* lines 48-50 of both runs
PairStart ==
    /\ pair = NoPair
    /\ \E cc \in Challenges, dA, dB \in BitVectors(MaxLen) :
        pair' = [pos |-> 0, m |-> cc,
                 a |-> Enter(gen, cc, dA), b |-> Enter(gen, cc, dB)]
    /\ UNCHANGED <<seed, sigma, twist, gen, secret, cls, variant, call>>
    /\ UNCHANGED mainVars

PairRun(st) ==
    IF pair.pos < Len(st.d)
    THEN Body(Device(sigma, variant), twist, pair.m, st, pair.pos)
    ELSE st

\* lines 51-57 of both runs, for index pair.pos
PairStep ==
    /\ pair # NoPair
    /\ pair.pos < Len(pair.a.d) \/ pair.pos < Len(pair.b.d)
    /\ pair' = [pair EXCEPT !.pos = @ + 1, !.a = PairRun(@), !.b = PairRun(@)]
    /\ UNCHANGED <<seed, sigma, twist, gen, secret, cls, variant, call>>
    /\ UNCHANGED mainVars

\* line 58 of both runs
PairReturn ==
    /\ pair # NoPair
    /\ pair.pos >= Len(pair.a.d) /\ pair.pos >= Len(pair.b.d)
    /\ pair' = NoPair
    /\ UNCHANGED <<seed, sigma, twist, gen, secret, cls, variant, call>>
    /\ UNCHANGED mainVars

NextPair == PairStart \/ PairStep \/ PairReturn

SpecPair == InitPair /\ [][NextPair]_vars

----------------------------------------------------------------------------
(* Properties *)

Ones(d) == Cardinality({k \in 1..Len(d) : d[k] = 1})

AllOnes == [k \in 1..keylen |-> 1]

\* the end-to-end scenario: keylen 8, p 61, mu 1000, no noise, the given secret
Scenario ==
    /\ keylen = 8 /\ primes[keylen] = 61 /\ mu * Tick = 1000
    /\ sigma = 0
    /\ secret = <<1, 0, 1, 1, 0, 0, 1, 0>>

\* C1 as stated: in the noiseless scenario the loop returns the secret and
\* the verifier takes the FULL branch.
C1_Original ==
    (pc = "done" /\ Scenario) => (recovered = secret /\ cls = "FULL")

\* C1 as amended: in the noiseless scenario the loop returns the all-ones
\* vector, which matches the secret in 4 of 8 positions, and the verifier
\* takes the LOW branch.
C1_NoiselessScenario ==
    (pc = "done" /\ Scenario) =>
        (recovered = AllOnes /\ Matches(secret, recovered) = 4 /\ cls = "LOW")

C1_Witness == pc = "done" /\ Scenario /\ cls # "none"

\* C2: with sigma = 0 the time returned by the group operation is
\* mu * (len(d) + number of 1-bits of d), whatever the challenge.
C2_ZeroNoiseStepCount ==
    (call # NoCall /\ sigma = 0) =>
        call.t * Tick = mu_default * (Len(call.d) + Ones(call.d))

C2_Witness ==
    /\ call # NoCall /\ sigma = 0 /\ variant = "square_and_mul"
    /\ Len(call.d) = keylen /\ Ones(call.d) >= 2 /\ call.m > 1

\* dA and dB agree on their first n positions
Agree(dA, dB, n) ==
    /\ n <= Len(dA) /\ n <= Len(dB)
    /\ \A k \in 1..n : dA[k] = dB[k]

\* C3: two runs on the same challenge whose exponent vectors agree on the
\* positions processed so far have the same register, the same generator
\* state and the same partial delay.
C3_CorrelationPrefix ==
    (pair # NoPair /\ Agree(pair.a.d, pair.b.d, pair.pos)) =>
        /\ pair.a.res = pair.b.res
        /\ pair.a.gen = pair.b.gen
        /\ pair.a.delay = pair.b.delay

C3_Witness ==
    /\ pair # NoPair /\ pair.pos >= 1 /\ sigma # 0
    /\ Agree(pair.a.d, pair.b.d, pair.pos)
    /\ pair.a.d[pair.pos] = 1
    /\ Len(pair.a.d) > pair.pos /\ Len(pair.b.d) > pair.pos
    /\ pair.a.d[pair.pos + 1] # pair.b.d[pair.pos + 1]

\* a round has just been decided and its accumulators are still in place
Decided == Len(out) > 0 /\ pc \in {"round", "check", "done"}

\* C4: the bit finalized for a round is 0 exactly when var0 < var1, and 1
\* otherwise, ties included (both variances scaled by N * N).
C4_DecisionRule ==
    Decided =>
        /\ recovered[Len(out)] = out[Len(out)]
        /\ out[Len(out)] \in Bit
        /\ out[Len(out)] = 0 <=>
               N * sum0_square - sum0 * sum0 < N * sum1_square - sum1 * sum1

C4_Witness ==
    /\ Decided /\ out[Len(out)] = 0
    /\ N * sum0_square - sum0 * sum0 < N * sum1_square - sum1 * sum1

\* number of positions where the checked vector equals the secret
Same == Cardinality({k \in 1..keylen : secret[k] = query[k]})

\* C5: LOW exactly when f < 0.75, PARTIAL exactly when 0.75 <= f < 1, FULL
\* exactly when f = 1, for f = Same / keylen; 6 of 8 is PARTIAL, 5 of 8 LOW.
C5_Classification ==
    cls # "none" =>
        /\ cls = "LOW" <=> 4 * Same < 3 * keylen
        /\ cls = "PARTIAL" <=> (4 * Same >= 3 * keylen /\ Same < keylen)
        /\ cls = "FULL" <=> Same = keylen
        /\ (keylen = 8 /\ Same = 6) => cls = "PARTIAL"
        /\ (keylen = 8 /\ Same = 5) => cls = "LOW"

C5_Witness == cls = "PARTIAL" /\ 4 * Same = 3 * keylen

\* the attacker has been queried in the current round
Queried == pc = "hyp1" \/ (pc \in {"trial", "decide"} /\ j > 0)

C7_SecretInvariant ==
    /\ Len(secret) = keylen
    /\ secret[1] = 1
    /\ secret = SecretKey(seed)

C7_Witness == pc = "done" /\ C7_SecretInvariant /\ Ones(secret) < keylen

\* C8: positions are finalized left to right, one per round; a finalized
\* position is never written again; the vector returned has length keylen,
\* entries in {0,1} and holds every round's decision.
C8_NoBacktracking ==
    /\ [](/\ Len(out) = (IF pc \in {"check", "done"} THEN keylen ELSE i)
          /\ Len(out) <= Len(recovered)
          /\ \A k \in 1..Len(out) : recovered[k] = out[k]
          /\ pc \in {"check", "done"} =>
                (Len(recovered) = keylen /\ \A k \in 1..keylen : recovered[k] \in Bit))
    /\ [][/\ Len(out') \in {Len(out), Len(out) + 1}
          /\ \A k \in 1..Len(out) : recovered'[k] = recovered[k] /\ out'[k] = out[k]
          /\ Len(out') = Len(out) + 1 =>
                (pc = "decide" /\ recovered'[i + 1] = out'[i + 1] /\ Len(out) = i)]_vars

C8_Witness == pc = "done" /\ Len(out) = keylen /\ 0 \in {out[k] : k \in 1..keylen}

\* generator states a call can find on entry
EntryGens ==
    {GenAfterInit(seed)} \cup {[seed |-> s, n |-> k] : s \in 0..2, k \in 0..2}

\* C9: the time returned by a sign call is the time the same call returns
\* from any other generator state on entry.
C9_HistoryIndependent ==
    call # NoCall =>
        \A g \in EntryGens :
            group_op(Device(sigma, variant), twist, g, call.m, call.d).delay = call.t

C9_Witness == call.k = 2 /\ sigma # 0 /\ Len(call.d) = keylen

\* C10: without noise both variances of every round are 0 and the loop
\* returns the all-ones vector, whatever the secret.
C10_NoiselessAllOnes ==
    sigma = 0 =>
        /\ pc = "decide" =>
              (N * sum0_square = sum0 * sum0 /\ N * sum1_square = sum1 * sum1)
        /\ \A k \in 1..Len(out) : out[k] = 1
        /\ pc \in {"check", "done"} => recovered = AllOnes

C10_Witness == sigma = 0 /\ pc = "done" /\ recovered = AllOnes /\ secret # AllOnes

====
